---- MODULE Spec2Model ----
(***************************************************************************)
(* The account ingestion pipeline of backend/internal/ingestion: the       *)
(* Fetcher loop (stealWork, processAccount), the in-memory queue of        *)
(* SyncJobs and the Normalizer loop (processJob), over the accounts and    *)
(* transactions tables of the SQLite store and the raw snapshot files.     *)
(*                                                                         *)
(* Time is counted in whole hours.  A server instance is one Fetcher       *)
(* goroutine, one queue and one Normalizer goroutine (server.New); the     *)
(* store and the snapshot directory are shared by all instances.           *)
(***************************************************************************)
EXTENDS Integers, Sequences, FiniteSets, TLC

\* ------------------------------------------------------------ constants
StaleHours == 6
ZombieHours == 1
LookbackHours == 2160
BatchSize == 10
DefaultPriority == 10
SeedPriority == 100
QueueCap == 100
ZeroTime == -17000000

\* ------------------------------------------------------------ bounds
MaxTime == 3
MaxJobs == 3
NumAccounts == 2
LargeAccounts == 12

StatusIdle == "IDLE"
StatusPendingSync == "PENDING_SYNC"
StatusSyncing == "SYNCING"
StatusFetched == "FETCHED"
StatusFailed == "FAILED"
SyncStatus == {StatusIdle, StatusPendingSync, StatusSyncing, StatusFetched, StatusFailed}

\* The columns AutoMigrate creates for models.Account that the pipeline reads
\* or writes.
AccountColumns == {"sync_status", "priority", "last_synced_cursor",
                   "last_updated_at", "last_sync_attempt", "balance", "currency"}

Procs == {"p1", "p2"}

VARIABLES
    now,      \* wall clock, in hours
    acct,     \* accounts table: id -> row
    txns,     \* transactions table: set of rows
    files,    \* raw snapshot files: path -> payload
    uuidCtr,  \* number of uuid batches handed out so far
    fpc,      \* per instance: where the Fetcher goroutine stands
    tx,       \* per instance: the open stealWork transaction
    batch,    \* per instance: claimed rows not yet processed
    cur,      \* per instance: the row processAccount is working on
    job,      \* per instance: the SyncJob processAccount built
    queue,    \* per instance: the channel of SyncJobs
    npc,      \* per instance: where the Normalizer goroutine stands
    njob,     \* per instance: the job processJob is working on
    ntx,      \* per instance: the parsed transactions of that job
    reply     \* the last call of the account service and what it returned

vars == <<now, acct, txns, files, uuidCtr, fpc, tx, batch, cur, job, queue,
          npc, njob, ntx, reply>>

Min(a, b) == IF a < b THEN a ELSE b

Accounts == DOMAIN acct

\* ------------------------------------------------------------ store
\* gorm Updates(map) builds one UPDATE with an assignment per map key; a key
\* that is no column of the table makes the statement fail and no column of
\* the row is written.
Updates(row, assignments) ==
    IF DOMAIN assignments \subseteq AccountColumns
    THEN [c \in DOMAIN row |->
            IF c \in DOMAIN assignments THEN assignments[c] ELSE row[c]]
    ELSE row

\* Eligible with the staleness comparison made inclusive.
EligibleInclusive(row, t) ==
    \/ row.sync_status = StatusPendingSync
    \/ row.sync_status = StatusIdle /\ row.last_updated_at <= t - StaleHours
    \/ row.sync_status = StatusSyncing /\ row.last_sync_attempt < t - ZombieHours

\* Eligible with a zero last_updated_at read as no date at all.
EligibleZeroExcluded(row, t) ==
    \/ row.sync_status = StatusPendingSync
    \/ /\ row.sync_status = StatusIdle
       /\ row.last_updated_at # ZeroTime
       /\ row.last_updated_at < t - StaleHours
    \/ row.sync_status = StatusSyncing /\ row.last_sync_attempt < t - ZombieHours

\* Eligible with FAILED accounts taken up again.
EligibleRetryFailed(row, t) ==
    \/ row.sync_status = StatusPendingSync
    \/ row.sync_status = StatusFailed
    \/ row.sync_status = StatusIdle /\ row.last_updated_at < t - StaleHours
    \/ row.sync_status = StatusSyncing /\ row.last_sync_attempt < t - ZombieHours

\* Eligible with the zombie comparison made inclusive.
EligibleZombieInclusive(row, t) ==
    \/ row.sync_status = StatusPendingSync
    \/ row.sync_status = StatusIdle /\ row.last_updated_at < t - StaleHours
    \/ row.sync_status = StatusSyncing /\ row.last_sync_attempt <= t - ZombieHours

\* WHERE sync_status = PENDING_SYNC
\*    OR (sync_status = IDLE AND last_updated_at < now - 6h)
\*    OR (sync_status = SYNCING AND last_sync_attempt < now - 1h)
Eligible(row, t) ==
    \/ row.sync_status = StatusPendingSync
    \/ row.sync_status = StatusIdle /\ row.last_updated_at < t - StaleHours
    \/ row.sync_status = StatusSyncing /\ row.last_sync_attempt < t - ZombieHours

EligibleSet(t) == {a \in Accounts : Eligible(acct[a], t)}

\* TopKSets without the ORDER BY: any rows up to the limit.
TopKSetsUnordered(E) ==
    {X \in SUBSET E : Cardinality(X) = Min(BatchSize, Cardinality(E))}

\* ORDER BY priority DESC LIMIT 10 over the rows E: the sets the first rows of
\* such an order can form.  Rows whose whole priority class fits are in every
\* one of them; the class the limit cuts contributes any of its rows (the
\* order among equal priorities is the engine's choice).
TopKSets(E) ==
    LET k == Min(BatchSize, Cardinality(E))
        Sure == {e \in E :
                   Cardinality({u \in E : acct[u].priority >= acct[e].priority}) <= k}
        Tie == {e \in E \ Sure :
                   Cardinality({u \in E : acct[u].priority > acct[e].priority}) < k}
    IN  {Sure \cup T : T \in {X \in SUBSET Tie :
                                  Cardinality(X) = k - Cardinality(Sure)}}

\* RowOf reading the rows as they were before the UPDATE.
RowOfSelected(a, table) == [id |-> a, row |-> acct[a]]

\* The row as Find returns it: the columns and the primary key.
RowOf(a, table) == [id |-> a, row |-> table[a]]

\* Any commit by another connection ends the snapshot of every open
\* transaction but the committer's own.
StaleAfterCommit(p) ==
    [q \in Procs |-> IF q # p /\ fpc[q] = "tx" THEN [tx[q] EXCEPT !.stale = TRUE]
                     ELSE tx[q]]
StaleAfterNormCommit ==
    [q \in Procs |-> IF fpc[q] = "tx" THEN [tx[q] EXCEPT !.stale = TRUE] ELSE tx[q]]

NoTx == [t |-> 0, ids |-> {}, stale |-> FALSE]

\* ------------------------------------------------------------ fetcher
\* CursorFor without the stored cursor: always the lookback.
CursorForLookback(r, t) == t - LookbackHours

\* processAccount's first statement: the cursor of the row, or 90 days back.
CursorFor(r, t) ==
    IF r.row.last_synced_cursor # <<>> THEN r.row.last_synced_cursor[1]
    ELSE t - LookbackHours

\* The range loop of StartFetcherLoop: take the next claimed row, or go back
\* to waiting for the ticker.
NextAccount(p, rows) ==
    IF rows = {}
    THEN /\ fpc' = [fpc EXCEPT ![p] = "wait"]
         /\ batch' = [batch EXCEPT ![p] = {}]
         /\ cur' = [cur EXCEPT ![p] = <<>>]
    ELSE \E r \in rows :
         /\ fpc' = [fpc EXCEPT ![p] = "fetch"]
         /\ batch' = [batch EXCEPT ![p] = rows \ {r}]
         /\ cur' = [cur EXCEPT ![p] = <<[id |-> r.id, cursor |-> CursorFor(r, now)]>>]

\* stealWork, statement A: begin the transaction and select the eligible ids.
\* With none the transaction commits at once and the tick is over.
StealSelect(p) ==
    /\ fpc[p] = "wait"
    /\ \E S \in TopKSets(EligibleSet(now)) :
        /\ IF S = {}
           THEN UNCHANGED <<fpc, tx>>
           ELSE /\ fpc' = [fpc EXCEPT ![p] = "tx"]
                /\ tx' = [tx EXCEPT ![p] = [t |-> now, ids |-> S, stale |-> FALSE]]
    /\ UNCHANGED <<reply, now, acct, txns, files, uuidCtr, batch, cur, job, queue, npc, njob, ntx>>

\* Claimed resetting the priority with the claim.
ClaimedResetPriority(table, ids, t) ==
    [a \in DOMAIN table |->
        IF a \in ids
        THEN Updates(table[a], [sync_status |-> StatusSyncing, last_sync_attempt |-> t,
                                priority |-> DefaultPriority])
        ELSE table[a]]

\* The rows stealWork's UPDATE writes.
Claimed(table, ids, t) ==
    [a \in DOMAIN table |->
        IF a \in ids
        THEN Updates(table[a], [sync_status |-> StatusSyncing, last_sync_attempt |-> t])
        ELSE table[a]]

\* StealCommit outside a transaction: the UPDATE goes through whatever was
\* committed since the SELECT.
StealCommitUnisolated(p) ==
    /\ fpc[p] = "tx"
    /\ acct' = Claimed(acct, tx[p].ids, tx[p].t)
    /\ tx' = [StaleAfterCommit(p) EXCEPT ![p] = NoTx]
    /\ NextAccount(p, {RowOf(a, acct') : a \in tx[p].ids})
    /\ UNCHANGED <<reply, now, txns, files, uuidCtr, job, queue, npc, njob, ntx>>

\* stealWork, statements B and C and the commit: update the selected rows,
\* read them back, return them to the loop, which starts on the first.
StealCommit(p) ==
    /\ fpc[p] = "tx"
    /\ ~tx[p].stale
    /\ acct' = Claimed(acct, tx[p].ids, tx[p].t)
    /\ tx' = [StaleAfterCommit(p) EXCEPT ![p] = NoTx]
    /\ NextAccount(p, {RowOf(a, acct') : a \in tx[p].ids})
    /\ UNCHANGED <<reply, now, txns, files, uuidCtr, job, queue, npc, njob, ntx>>

\* stealWork returns an error: the transaction is rolled back, the loop logs
\* and waits for the next tick.  A transaction whose snapshot another commit
\* has ended can only end this way (SQLITE_BUSY on its UPDATE).
StealAbort(p) ==
    /\ fpc[p] = "tx"
    /\ fpc' = [fpc EXCEPT ![p] = "wait"]
    /\ tx' = [tx EXCEPT ![p] = NoTx]
    /\ UNCHANGED <<reply, now, acct, txns, files, uuidCtr, batch, cur, job, queue, npc, njob, ntx>>

\* Any of the payloads the bank can answer with.
BadPayload == [ok |-> FALSE, recs |-> <<>>]
BankPayloads == {BadPayload, [ok |-> TRUE, recs |-> <<"tx-1", "tx-2">>]}

\* saveToLocalStorage: storage/raw/{accountID}/{unix time}.json
S3PathOf(a, t) == <<a, t>>
WriteFile(fs, path, data) ==
    [q \in DOMAIN fs \cup {path} |-> IF q = path THEN data ELSE fs[q]]

\* processAccount, fetch error branch: the UPDATE names last_error.
FailedRow(row) ==
    Updates(row, [sync_status |-> StatusFailed, last_error |-> "err"])

\* processAccount: fetchFromBankMock returns an error.
FetchFail(p) ==
    /\ fpc[p] = "fetch"
    /\ LET a == cur[p][1].id IN
        /\ acct' = [acct EXCEPT ![a] = FailedRow(acct[a])]
        /\ tx' = IF acct' = acct THEN tx ELSE StaleAfterCommit(p)
    /\ NextAccount(p, batch[p])
    /\ UNCHANGED <<reply, now, txns, files, uuidCtr, job, queue, npc, njob, ntx>>

\* StageFail marking the account FAILED as the fetch error branch means to.
StageFailMarked(p) ==
    /\ fpc[p] = "fetch"
    /\ acct' = [acct EXCEPT ![cur[p][1].id] =
                    Updates(acct[cur[p][1].id], [sync_status |-> StatusFailed])]
    /\ tx' = StaleAfterCommit(p)
    /\ NextAccount(p, batch[p])
    /\ UNCHANGED <<reply, now, txns, files, uuidCtr, job, queue, npc, njob, ntx>>

\* processAccount: the fetch succeeds and saveToLocalStorage fails.
StageFail(p) ==
    /\ fpc[p] = "fetch"
    /\ NextAccount(p, batch[p])
    /\ UNCHANGED <<reply, now, acct, txns, files, uuidCtr, tx, job, queue, npc, njob, ntx>>

\* processAccount: the fetch succeeds, the raw bytes are written and the
\* SyncJob is built; the send on the channel comes next.
FetchStage(p) ==
    /\ fpc[p] = "fetch"
    /\ \E data \in BankPayloads :
        LET a == cur[p][1].id
            path == S3PathOf(a, now)
        IN  /\ files' = WriteFile(files, path, data)
            /\ job' = [job EXCEPT ![p] = <<[AccountID |-> a,
                                            Cursor |-> cur[p][1].cursor,
                                            S3Path |-> path,
                                            FetchedAt |-> now]>>]
    /\ fpc' = [fpc EXCEPT ![p] = "push"]
    /\ UNCHANGED <<reply, now, acct, txns, uuidCtr, tx, batch, cur, queue, npc, njob, ntx>>

\* Push on a channel that was never made: the send blocks for ever.
PushNilChannel(p) ==
    /\ fpc[p] = "push"
    /\ FALSE
    /\ UNCHANGED vars

\* Push putting the job in front of the waiting ones.
PushFront(p) ==
    /\ fpc[p] = "push"
    /\ Len(queue[p]) < QueueCap
    /\ queue' = [queue EXCEPT ![p] = <<job[p][1]>> \o queue[p]]
    /\ fpc' = [fpc EXCEPT ![p] = "mark"]
    /\ UNCHANGED <<reply, now, acct, txns, files, uuidCtr, tx, batch, cur, job, npc, njob, ntx>>

\* Push on a channel without a capacity.
PushUnbounded(p) ==
    /\ fpc[p] = "push"
    /\ queue' = [queue EXCEPT ![p] = Append(queue[p], job[p][1])]
    /\ fpc' = [fpc EXCEPT ![p] = "mark"]
    /\ UNCHANGED <<reply, now, acct, txns, files, uuidCtr, tx, batch, cur, job, npc, njob, ntx>>

\* Push sending the job twice.
PushTwice(p) ==
    /\ fpc[p] = "push"
    /\ Len(queue[p]) < QueueCap
    /\ queue' = [queue EXCEPT ![p] = Append(Append(queue[p], job[p][1]), job[p][1])]
    /\ fpc' = [fpc EXCEPT ![p] = "mark"]
    /\ UNCHANGED <<reply, now, acct, txns, files, uuidCtr, tx, batch, cur, job, npc, njob, ntx>>

\* queue <- job: blocks while the channel is full.
Push(p) ==
    /\ fpc[p] = "push"
    /\ Len(queue[p]) < QueueCap
    /\ queue' = [queue EXCEPT ![p] = Append(queue[p], job[p][1])]
    /\ fpc' = [fpc EXCEPT ![p] = "mark"]
    /\ UNCHANGED <<reply, now, acct, txns, files, uuidCtr, tx, batch, cur, job, npc, njob, ntx>>

\* FetchedRow without the priority reset.
FetchedRowKeepPriority(row) ==
    Updates(row, [sync_status |-> StatusFetched])

\* processAccount, step 5: the checkpoint UPDATE.
FetchedRow(row) ==
    Updates(row, [sync_status |-> StatusFetched, priority |-> DefaultPriority])

MarkFetched(p) ==
    /\ fpc[p] = "mark"
    /\ acct' = [acct EXCEPT ![cur[p][1].id] = FetchedRow(acct[cur[p][1].id])]
    /\ tx' = StaleAfterCommit(p)
    /\ job' = [job EXCEPT ![p] = <<>>]
    /\ NextAccount(p, batch[p])
    /\ UNCHANGED <<reply, now, txns, files, uuidCtr, queue, npc, njob, ntx>>

\* ------------------------------------------------------------ normalizer
\* parseTransactions: one row per bank record, with a fresh uuid, the job's
\* account id, the bank's id as provider_transaction_id and the parse time.
ParseTransactions(a, recs, n, t) ==
    [i \in 1..Len(recs) |-> [ID |-> <<n, i>>,
                             AccountID |-> a,
                             ProviderTransactionID |-> recs[i],
                             SystemInsertedAt |-> t]]

\* The unique index idx_provider_txn, the conflict target of the upsert.
Conflicts(r, s) == r.ProviderTransactionID = s.ProviderTransactionID

\* UpsertTransactions as ON CONFLICT DO UPDATE: a conflicting stored row gives
\* way to the new one.
UpsertTransactionsReplacing(store, rows) ==
    {s \in store : \A i \in 1..Len(rows) : ~Conflicts(rows[i], s)}
    \cup {rows[i] : i \in {k \in 1..Len(rows) :
                            \A j \in 1..(k - 1) : ~Conflicts(rows[j], rows[k])}}

\* INSERT ... ON CONFLICT (provider_transaction_id) DO NOTHING, row by row.
RECURSIVE UpsertTransactions(_, _)
UpsertTransactions(store, rows) ==
    IF rows = <<>> THEN store
    ELSE UpsertTransactions(
            IF \E s \in store : Conflicts(Head(rows), s) THEN store
            ELSE store \cup {Head(rows)},
            Tail(rows))

\* for job := range queue, and os.ReadFile failing.
NormReadFail(p) ==
    /\ npc[p] = "idle"
    /\ queue[p] # <<>>
    /\ queue' = [queue EXCEPT ![p] = Tail(queue[p])]
    /\ UNCHANGED <<reply, now, acct, txns, files, uuidCtr, fpc, tx, batch, cur, job, npc, njob, ntx>>

\* NormParseFail marking the account of the dropped job FAILED.
NormParseFailMarked(p) ==
    /\ npc[p] = "idle"
    /\ queue[p] # <<>>
    /\ Head(queue[p]).S3Path \in DOMAIN files
    /\ ~files[Head(queue[p]).S3Path].ok
    /\ acct' = [acct EXCEPT ![Head(queue[p]).AccountID] =
                    Updates(@, [sync_status |-> StatusFailed])]
    /\ tx' = StaleAfterNormCommit
    /\ queue' = [queue EXCEPT ![p] = Tail(queue[p])]
    /\ UNCHANGED <<reply, now, txns, files, uuidCtr, fpc, batch, cur, job, npc, njob, ntx>>

\* The file is read and json.Unmarshal fails.
NormParseFail(p) ==
    /\ npc[p] = "idle"
    /\ queue[p] # <<>>
    /\ Head(queue[p]).S3Path \in DOMAIN files
    /\ ~files[Head(queue[p]).S3Path].ok
    /\ queue' = [queue EXCEPT ![p] = Tail(queue[p])]
    /\ UNCHANGED <<reply, now, acct, txns, files, uuidCtr, fpc, tx, batch, cur, job, npc, njob, ntx>>

\* NormParse going to the upsert also with no transactions.
NormParseAlwaysUpsert(p) ==
    /\ npc[p] = "idle"
    /\ queue[p] # <<>>
    /\ uuidCtr < MaxJobs
    /\ LET j == Head(queue[p]) IN
        /\ j.S3Path \in DOMAIN files
        /\ files[j.S3Path].ok
        /\ njob' = [njob EXCEPT ![p] = <<j>>]
        /\ ntx' = [ntx EXCEPT ![p] =
                      ParseTransactions(j.AccountID, files[j.S3Path].recs, uuidCtr, now)]
        /\ npc' = [npc EXCEPT ![p] = "upsert"]
    /\ uuidCtr' = uuidCtr + 1
    /\ queue' = [queue EXCEPT ![p] = Tail(queue[p])]
    /\ UNCHANGED <<reply, now, acct, txns, files, fpc, tx, batch, cur, job>>

\* The file is read and parsed; with no transactions the upsert is skipped.
NormParse(p) ==
    /\ npc[p] = "idle"
    /\ queue[p] # <<>>
    /\ uuidCtr < MaxJobs
    /\ LET j == Head(queue[p]) IN
        /\ j.S3Path \in DOMAIN files
        /\ files[j.S3Path].ok
        /\ njob' = [njob EXCEPT ![p] = <<j>>]
        /\ ntx' = [ntx EXCEPT ![p] =
                      ParseTransactions(j.AccountID, files[j.S3Path].recs, uuidCtr, now)]
        /\ npc' = [npc EXCEPT ![p] =
                      IF files[j.S3Path].recs = <<>> THEN "finalize" ELSE "upsert"]
    /\ uuidCtr' = uuidCtr + 1
    /\ queue' = [queue EXCEPT ![p] = Tail(queue[p])]
    /\ UNCHANGED <<reply, now, acct, txns, files, fpc, tx, batch, cur, job>>

NormUpsert(p) ==
    /\ npc[p] = "upsert"
    /\ txns' = UpsertTransactions(txns, ntx[p])
    /\ tx' = StaleAfterNormCommit
    /\ npc' = [npc EXCEPT ![p] = "finalize"]
    /\ UNCHANGED <<reply, now, acct, files, uuidCtr, fpc, batch, cur, job, queue, njob, ntx>>

\* NormUpsertFail going on to the finalize in spite of the error.
NormUpsertFailIgnored(p) ==
    /\ npc[p] = "upsert"
    /\ npc' = [npc EXCEPT ![p] = "finalize"]
    /\ UNCHANGED <<reply, now, acct, txns, files, uuidCtr, fpc, tx, batch, cur, job, queue,
                   njob, ntx>>

\* upsertTransactions returns an error: the job is dropped.
NormUpsertFail(p) ==
    /\ npc[p] = "upsert"
    /\ npc' = [npc EXCEPT ![p] = "idle"]
    /\ njob' = [njob EXCEPT ![p] = <<>>]
    /\ ntx' = [ntx EXCEPT ![p] = <<>>]
    /\ UNCHANGED <<reply, now, acct, txns, files, uuidCtr, fpc, tx, batch, cur, job, queue>>

\* FinalizedRow setting the cursor an hour before the window just fetched.
FinalizedRowBackdated(row, j, t) ==
    Updates(row, [sync_status |-> StatusIdle,
                  last_synced_cursor |-> <<j.Cursor - 1>>,
                  last_updated_at |-> t,
                  priority |-> DefaultPriority])

\* FinalizedRow advancing the cursor to the job's Cursor, not its FetchedAt.
FinalizedRowOldCursor(row, j, t) ==
    Updates(row, [sync_status |-> StatusIdle,
                  last_synced_cursor |-> <<j.Cursor>>,
                  last_updated_at |-> t,
                  priority |-> DefaultPriority])

\* finalizeAccount's UPDATE ... WHERE id = job.AccountID.
FinalizedRow(row, j, t) ==
    Updates(row, [sync_status |-> StatusIdle,
                  last_synced_cursor |-> <<j.FetchedAt>>,
                  last_updated_at |-> t,
                  priority |-> DefaultPriority])

NormFinalize(p) ==
    /\ npc[p] = "finalize"
    /\ LET j == njob[p][1] IN
        acct' = [a \in Accounts |->
                    IF a = j.AccountID THEN FinalizedRow(acct[a], j, now) ELSE acct[a]]
    /\ tx' = StaleAfterNormCommit
    /\ npc' = [npc EXCEPT ![p] = "idle"]
    /\ njob' = [njob EXCEPT ![p] = <<>>]
    /\ ntx' = [ntx EXCEPT ![p] = <<>>]
    /\ UNCHANGED <<reply, now, txns, files, uuidCtr, fpc, batch, cur, job, queue>>

\* finalizeAccount returns an error: logged, the job is over.
NormFinalizeFail(p) ==
    /\ npc[p] = "finalize"
    /\ npc' = [npc EXCEPT ![p] = "idle"]
    /\ njob' = [njob EXCEPT ![p] = <<>>]
    /\ ntx' = [ntx EXCEPT ![p] = <<>>]
    /\ UNCHANGED <<reply, now, acct, txns, files, uuidCtr, fpc, tx, batch, cur, job, queue>>

\* ------------------------------------------------------------ account service
\* The user_id column: written when the account is provisioned and by no
\* statement of the pipeline or the service.  The third user has no account.
Users == {"u1", "u2", "u3"}
UserOf(a) == IF a = 1 THEN "u1" ELSE "u2"

NoError == "nil"
ErrNotFound == "no accounts found"
ErrDatabase == "database error"

NoReply == [op |-> "none", user |-> "", account |-> 0, dbError |-> FALSE,
            err |-> NoError, rows |-> {}]

\* GetUserAccounts: Find with user_id = userID; dbOk is whether the query
\* went through.
GetUserAccounts(userID, dbOk) ==
    IF ~dbOk THEN [err |-> ErrDatabase, rows |-> {}]
    ELSE [err |-> NoError, rows |-> {a \in Accounts : UserOf(a) = userID}]

\* GetAccountTransactions without the user_id condition of its first query.
GetAccountTransactionsAnyUser(userID, accountID, dbOk1, dbOk2) ==
    IF ~dbOk1 THEN [err |-> ErrDatabase, rows |-> {}]
    ELSE IF accountID \notin Accounts THEN [err |-> ErrNotFound, rows |-> {}]
    ELSE IF ~dbOk2 THEN [err |-> ErrDatabase, rows |-> {}]
    ELSE [err |-> NoError, rows |-> {t \in txns : t.AccountID = accountID}]

\* GetAccountTransactions: First with id = accountID AND user_id = userID,
\* then Find with account_id = accountID.
GetAccountTransactions(userID, accountID, dbOk1, dbOk2) ==
    IF ~dbOk1 THEN [err |-> ErrDatabase, rows |-> {}]
    ELSE IF ~(accountID \in Accounts /\ UserOf(accountID) = userID)
         THEN [err |-> ErrNotFound, rows |-> {}]
    ELSE IF ~dbOk2 THEN [err |-> ErrDatabase, rows |-> {}]
    ELSE [err |-> NoError, rows |-> {t \in txns : t.AccountID = accountID}]

\* A request for the accounts of a user.
CallGetUserAccounts ==
    /\ \E u \in Users, dbOk \in BOOLEAN :
        LET r == GetUserAccounts(u, dbOk)
        IN  reply' = [op |-> "GetUserAccounts", user |-> u, account |-> 0,
                      dbError |-> ~dbOk, err |-> r.err, rows |-> r.rows]
    /\ UNCHANGED <<now, acct, txns, files, uuidCtr, fpc, tx, batch, cur, job, queue, npc,
                   njob, ntx>>

\* A request for the transactions of an account, which may not exist.
CallGetAccountTransactions ==
    /\ \E u \in Users, a \in Accounts \cup {0}, dbOk1 \in BOOLEAN, dbOk2 \in BOOLEAN :
        LET r == GetAccountTransactions(u, a, dbOk1, dbOk2)
        IN  reply' = [op |-> "GetAccountTransactions", user |-> u, account |-> a,
                      dbError |-> ~dbOk1 \/ (r.err = ErrDatabase),
                      err |-> r.err, rows |-> r.rows]
    /\ UNCHANGED <<now, acct, txns, files, uuidCtr, fpc, tx, batch, cur, job, queue, npc,
                   njob, ntx>>

\* ------------------------------------------------------------ environment
\* The process dies and is started again (server.New): the goroutines, the
\* channel and every local are new; the store and the files stay.
Crash(p) ==
    /\ fpc' = [fpc EXCEPT ![p] = "wait"]
    /\ tx' = [tx EXCEPT ![p] = NoTx]
    /\ batch' = [batch EXCEPT ![p] = {}]
    /\ cur' = [cur EXCEPT ![p] = <<>>]
    /\ job' = [job EXCEPT ![p] = <<>>]
    /\ queue' = [queue EXCEPT ![p] = <<>>]
    /\ npc' = [npc EXCEPT ![p] = "idle"]
    /\ njob' = [njob EXCEPT ![p] = <<>>]
    /\ ntx' = [ntx EXCEPT ![p] = <<>>]
    /\ UNCHANGED <<reply, now, acct, txns, files, uuidCtr>>

Tick ==
    /\ now < MaxTime
    /\ now' = now + 1
    /\ UNCHANGED <<reply, acct, txns, files, uuidCtr, fpc, tx, batch, cur, job, queue, npc,
                   njob, ntx>>

\* ------------------------------------------------------------ the pipeline
\* Rows as provisioning or cmd/seed leave them: the seeded row, a provisioned
\* row never synced, a row synced an hour ago and a row synced 8 hours ago.
SeedRow == [sync_status |-> StatusPendingSync, priority |-> SeedPriority,
            last_synced_cursor |-> <<>>, last_updated_at |-> ZeroTime,
            balance |-> 0, currency |-> "ILS",
            last_sync_attempt |-> ZeroTime]
NewRow == [sync_status |-> StatusIdle, priority |-> DefaultPriority,
           last_synced_cursor |-> <<>>, last_updated_at |-> ZeroTime,
           balance |-> 0, currency |-> "ILS",
           last_sync_attempt |-> ZeroTime]
FreshRow == [sync_status |-> StatusIdle, priority |-> DefaultPriority,
             last_synced_cursor |-> <<-1>>, last_updated_at |-> -1,
             balance |-> 0, currency |-> "ILS",
             last_sync_attempt |-> -1]
OldRow == [sync_status |-> StatusIdle, priority |-> DefaultPriority,
           last_synced_cursor |-> <<-8>>, last_updated_at |-> -8,
           balance |-> 0, currency |-> "ILS",
           last_sync_attempt |-> -8]
InitRows == {SeedRow, NewRow, FreshRow, OldRow}

InitMemory ==
    /\ fpc = [p \in Procs |-> "wait"]
    /\ tx = [p \in Procs |-> NoTx]
    /\ batch = [p \in Procs |-> {}]
    /\ cur = [p \in Procs |-> <<>>]
    /\ job = [p \in Procs |-> <<>>]
    /\ queue = [p \in Procs |-> <<>>]
    /\ npc = [p \in Procs |-> "idle"]
    /\ njob = [p \in Procs |-> <<>>]
    /\ ntx = [p \in Procs |-> <<>>]
    /\ reply = NoReply

Init ==
    /\ now = 0
    /\ acct \in [1..NumAccounts -> InitRows]
    /\ txns = {}
    /\ files = <<>>
    /\ uuidCtr = 0
    /\ InitMemory

Step(p) ==
    \/ StealSelect(p)
    \/ StealCommit(p)
    \/ StealAbort(p)
    \/ FetchFail(p)
    \/ StageFail(p)
    \/ FetchStage(p)
    \/ Push(p)
    \/ MarkFetched(p)
    \/ NormReadFail(p)
    \/ NormParseFail(p)
    \/ NormParse(p)
    \/ NormUpsert(p)
    \/ NormUpsertFail(p)
    \/ NormFinalize(p)
    \/ NormFinalizeFail(p)
    \/ Crash(p)

\* One server instance.
Next == Step("p1") \/ Tick

Spec == Init /\ [][Next]_vars

\* Two server instances on one store and one snapshot directory, one account.
InitTwo ==
    /\ now = 0
    /\ acct \in [{1} -> InitRows]
    /\ txns = {}
    /\ files = <<>>
    /\ uuidCtr = 0
    /\ InitMemory

NextTwo == (\E p \in Procs : Step(p)) \/ Tick

SpecTwo == InitTwo /\ [][NextTwo]_vars

\* ------------------------------------------------------------ stealWork alone
\* Two Fetchers call stealWork at the same moment on a table of any rows:
\* every status, both sides of the 6 hour and the 1 hour threshold.
StealRows ==
    {[sync_status |-> s, priority |-> DefaultPriority, last_synced_cursor |-> <<>>,
      last_updated_at |-> lu, balance |-> 0, currency |-> "ILS", last_sync_attempt |-> la] :
        s \in SyncStatus, lu \in {-7, -6}, la \in {-2, -1}}

\* Tables with more rows than one batch: i1 requested rows of the seed's
\* priority, then requested rows of the default priority, and from i2 on rows
\* waiting for the Normalizer.
LargeTable(n, i1, i2) ==
    [a \in 1..n |->
        [sync_status |-> IF a <= i2 THEN StatusPendingSync ELSE StatusFetched,
         priority |-> IF a <= i1 THEN SeedPriority ELSE DefaultPriority,
         last_synced_cursor |-> <<>>,
         last_updated_at |-> ZeroTime,
         balance |-> 0, currency |-> "ILS",
         last_sync_attempt |-> ZeroTime]]

\* Tables with more requested rows than two batches, all priorities distinct.
OverflowAccounts == 2 * BatchSize + 1
OverflowTable(n) ==
    [a \in 1..OverflowAccounts |->
        [sync_status |-> IF a <= n THEN StatusPendingSync ELSE StatusFetched,
         priority |-> DefaultPriority + a,
         last_synced_cursor |-> <<>>,
         last_updated_at |-> ZeroTime,
         balance |-> 0, currency |-> "ILS",
         last_sync_attempt |-> ZeroTime]]

StealTables ==
    [1..NumAccounts -> StealRows]
    \cup {LargeTable(LargeAccounts, i1, i2) :
            i1 \in 0..LargeAccounts, i2 \in (BatchSize - 1)..LargeAccounts}
    \cup {OverflowTable(n) : n \in (2 * BatchSize - 1)..OverflowAccounts}

InitSteal ==
    /\ now = 0
    /\ acct \in StealTables
    /\ txns = {}
    /\ files = <<>>
    /\ uuidCtr = 0
    /\ InitMemory

NextSteal == \E p \in Procs : StealSelect(p) \/ StealCommit(p) \/ StealAbort(p)

SpecSteal == InitSteal /\ [][NextSteal]_vars

\* ------------------------------------------------------------ a full channel
\* The Normalizer has fallen behind: the channel holds one job less than its
\* capacity, each for an account fetched an hour ago, when the bank answered
\* the first with an empty list and the others with a payload that does not
\* parse; the snapshots are on disk, and two more accounts have been
\* requested.
EmptyPayload == [ok |-> TRUE, recs |-> <<>>]

BacklogJob(a) ==
    [AccountID |-> a, Cursor |-> -1 - LookbackHours, S3Path |-> S3PathOf(a, -1),
     FetchedAt |-> -1]

BacklogTable ==
    [a \in 1..(QueueCap + 1) |->
        IF a < QueueCap
        THEN [sync_status |-> StatusFetched, priority |-> DefaultPriority,
              last_synced_cursor |-> <<>>, last_updated_at |-> ZeroTime,
              balance |-> 0, currency |-> "ILS",
              last_sync_attempt |-> -1]
        ELSE SeedRow]

InitBacklog ==
    /\ now = 0
    /\ acct = BacklogTable
    /\ txns = {}
    /\ files = [path \in {S3PathOf(a, -1) : a \in 1..(QueueCap - 1)} |->
                    IF path = S3PathOf(1, -1) THEN EmptyPayload ELSE BadPayload]
    /\ uuidCtr = 0
    /\ fpc = [p \in Procs |-> "wait"]
    /\ tx = [p \in Procs |-> NoTx]
    /\ batch = [p \in Procs |-> {}]
    /\ cur = [p \in Procs |-> <<>>]
    /\ job = [p \in Procs |-> <<>>]
    /\ queue = [p \in Procs |->
                    IF p = "p1" THEN [i \in 1..(QueueCap - 1) |-> BacklogJob(i)] ELSE <<>>]
    /\ npc = [p \in Procs |-> "idle"]
    /\ njob = [p \in Procs |-> <<>>]
    /\ ntx = [p \in Procs |-> <<>>]
    /\ reply = NoReply

NextBacklog == Step("p1")

SpecBacklog == InitBacklog /\ [][NextBacklog]_vars

\* The backlog with the process staying up, the Normalizer goroutine being
\* scheduled whenever it can take a step, and the Fetcher's send completing
\* once the channel has room.
FetcherStep(p) ==
    \/ StealSelect(p)
    \/ StealCommit(p)
    \/ StealAbort(p)
    \/ FetchFail(p)
    \/ StageFail(p)
    \/ FetchStage(p)
    \/ Push(p)
    \/ MarkFetched(p)

NormalizerStep(p) ==
    \/ NormReadFail(p)
    \/ NormParseFail(p)
    \/ NormParse(p)
    \/ NormUpsert(p)
    \/ NormUpsertFail(p)
    \/ NormFinalize(p)
    \/ NormFinalizeFail(p)

NextLive == FetcherStep("p1") \/ NormalizerStep("p1")

SpecLive ==
    /\ InitBacklog
    /\ [][NextLive]_vars
    /\ WF_vars(NormalizerStep("p1"))
    /\ WF_vars(Push("p1"))

\* ------------------------------------------------------------ parked accounts
\* One server instance on a table whose first account is FAILED, or FETCHED
\* with its job lost, since 8 hours, with the seed's priority.
ParkedRows ==
    {[sync_status |-> s, priority |-> SeedPriority, last_synced_cursor |-> <<>>,
      last_updated_at |-> ZeroTime, balance |-> 0, currency |-> "ILS", last_sync_attempt |-> -8] :
        s \in {StatusFailed, StatusFetched}}

InitParked ==
    /\ now = 0
    /\ acct \in {t \in [1..NumAccounts -> InitRows \cup ParkedRows] : t[1] \in ParkedRows}
    /\ txns = {}
    /\ files = <<>>
    /\ uuidCtr = 0
    /\ InitMemory

NextParked == Step("p1") \/ Tick

SpecParked == InitParked /\ [][NextParked]_vars

\* ------------------------------------------------------------ the service alone
\* Requests on a store the pipeline has filled: the transactions are what
\* two upserts of parsed snapshots leave.
SnapshotRecords == {<<>>, <<"tx-1">>, <<"tx-1", "tx-2">>, <<"tx-3">>}

InitService ==
    /\ now = 0
    /\ acct \in [1..NumAccounts -> {SeedRow, FreshRow}]
    /\ txns \in {UpsertTransactions(
                    UpsertTransactions({}, ParseTransactions(a1, r1, 0, -1)),
                    ParseTransactions(a2, r2, 1, -1)) :
                        a1 \in 1..NumAccounts, a2 \in 1..NumAccounts,
                        r1 \in SnapshotRecords, r2 \in SnapshotRecords}
    /\ files = <<>>
    /\ uuidCtr = 2
    /\ InitMemory

NextService == CallGetUserAccounts \/ CallGetAccountTransactions

SpecService == InitService /\ [][NextService]_vars

\* ------------------------------------------------------------ claims
\* The jobs instance p holds for account a: in its channel or in processJob.
JobsOf(p, a) ==
    Cardinality({i \in 1..Len(queue[p]) : queue[p][i].AccountID = a})
    + (IF njob[p] # <<>> /\ njob[p][1].AccountID = a THEN 1 ELSE 0)

\* The unfinished cycles of account a in instance p: a claimed row waiting in
\* the batch, the row processAccount has not yet enqueued, and the jobs.
CyclesOf(p, a) ==
    Cardinality({r \in batch[p] : r.id = a})
    + (IF fpc[p] \in {"fetch", "push"} /\ cur[p][1].id = a THEN 1 ELSE 0)
    + JobsOf(p, a)

\* C1: in every reachable state every account has at most one fetch/normalize
\* cycle in flight over all fetcher instances.
C1_OneCycleInFlight ==
    \A a \in Accounts :
        CyclesOf("p1", a) + CyclesOf("p2", a) <= 1

\* processJob for the job the Fetcher of p just pushed finalized the account.
JobFinalized(p) ==
    /\ job[p] # <<>>
    /\ \A i \in 1..Len(queue[p]) : queue[p][i] # job[p][1]
    /\ njob[p] # job[p]
    /\ acct[job[p][1].AccountID].last_synced_cursor = <<job[p][1].FetchedAt>>

\* C3: whichever of the Fetcher's FETCHED write and the Normalizer's finalize
\* of the same job comes last, the account is IDLE once both are done.
C3_IdleAfterBoth ==
    [][\A p \in Procs :
        /\ (MarkFetched(p) /\ JobFinalized(p))
              => acct'[job[p][1].AccountID].sync_status = StatusIdle
        /\ (NormFinalize(p) /\ ~(fpc[p] = "mark" /\ job[p] = njob[p]))
              => acct'[njob[p][1].AccountID].sync_status = StatusIdle]_vars

\* The transitions of section 4.3.
ListedTransition(row, s) ==
    \/ s = StatusSyncing /\ row.sync_status \in {StatusIdle, StatusPendingSync, StatusSyncing}
    \/ s = StatusFetched /\ row.sync_status = StatusSyncing
    \/ s = StatusFailed /\ row.sync_status = StatusSyncing
    \/ s = StatusIdle /\ row.sync_status = StatusFetched

\* C4: every change of sync_status is a listed transition; the Fetcher writes
\* FETCHED only over SYNCING and the Normalizer writes IDLE only over FETCHED.
C4_ListedTransitions ==
    [][/\ \A a \in Accounts :
            acct'[a].sync_status # acct[a].sync_status
                => ListedTransition(acct[a], acct'[a].sync_status)
       /\ \A p \in Procs :
            /\ MarkFetched(p) => acct[cur[p][1].id].sync_status = StatusSyncing
            /\ NormFinalize(p) => acct[njob[p][1].AccountID].sync_status = StatusFetched]_vars

\* C5: when the process dies with a job of an account in the channel or in
\* processJob, the account is SYNCING at the restart.
C5_SyncingAtRestart ==
    [][\A p \in Procs : \A a \in Accounts :
        (Crash(p) /\ JobsOf(p, a) > 0) => acct'[a].sync_status = StatusSyncing]_vars

\* C6: a fetch error leaves the account FAILED, writes no snapshot and pushes
\* no job.
C6_FailedOnFetchError ==
    [][\A p \in Procs :
        FetchFail(p) => /\ acct'[cur[p][1].id].sync_status = StatusFailed
                        /\ files' = files
                        /\ queue' = queue]_vars

\* The rows stealWork returned to the Fetcher of p that are still with it.
Ret(p) ==
    {r.id : r \in batch[p]}
    \cup (IF fpc[p] \in {"fetch", "push", "mark"} THEN {cur[p][1].id} ELSE {})

\* The eligibility rule of section 4.2, at time t.
IsEligible(row, t) ==
    \/ row.sync_status = "PENDING_SYNC"
    \/ row.sync_status = "IDLE" /\ row.last_updated_at < t - 6
    \/ row.sync_status = "SYNCING" /\ row.last_sync_attempt < t - 1

\* The accounts that were eligible when the two calls started: those claimed
\* and those still eligible (stealWork changes no other row, and the clock of
\* SpecSteal stands).
EligibleAtStart == Ret("p1") \cup Ret("p2") \cup {a \in Accounts : IsEligible(acct[a], now)}

\* C2 as stated: once two concurrent stealWork calls have both returned a
\* batch, every account that was eligible is in exactly one of the batches.
C2_ExactlyOneClaimer ==
    (fpc["p1"] = "fetch" /\ fpc["p2"] = "fetch")
        => \A a \in EligibleAtStart : (a \in Ret("p1")) # (a \in Ret("p2"))

\* C2 amended: no account is in both batches, and once both calls have
\* returned a batch every account that was eligible is in exactly one of them
\* when no more than 20 accounts were eligible.
C2_AtMostOneClaimer ==
    /\ Ret("p1") \cap Ret("p2") = {}
    /\ (fpc["p1"] = "fetch" /\ fpc["p2"] = "fetch"
            /\ Cardinality(EligibleAtStart) <= 20)
        => \A a \in EligibleAtStart : (a \in Ret("p1")) # (a \in Ret("p2"))

\* Both calls selected the same account; p1 committed first and holds it.
C2_Witness ==
    \E a \in Accounts :
        a \in Ret("p1") /\ fpc["p2"] = "tx" /\ a \in tx["p2"].ids

\* C9: a step claims an account (turns its row to SYNCING with a new attempt
\* time) only if the account is PENDING_SYNC, or IDLE and updated more than 6
\* hours ago, or SYNCING and attempted more than 1 hour ago; a FETCHED or
\* FAILED row, an IDLE row updated within 6 hours and a SYNCING row attempted
\* within the hour are left as they are.
C9_ClaimsOnlyEligible ==
    [][\A a \in Accounts :
        /\ (acct'[a] # acct[a] /\ acct'[a].sync_status = "SYNCING")
              => IsEligible(acct[a], now)
        /\ (\/ acct[a].sync_status \in {"FETCHED", "FAILED"}
            \/ acct[a].sync_status = "IDLE" /\ acct[a].last_updated_at > now - 6
            \/ acct[a].sync_status = "SYNCING" /\ acct[a].last_sync_attempt > now - 1)
              => acct'[a].sync_status = acct[a].sync_status]_vars

\* A batch was claimed while an IDLE account updated exactly 6 hours ago
\* stayed IDLE.
C9_Witness ==
    \E p \in Procs : \E a \in Accounts :
        /\ Ret(p) # {}
        /\ acct[a].sync_status = "IDLE"
        /\ acct[a].last_updated_at = now - 6

\* C10: a stealWork call that commits claims exactly min(10, |E|) of the
\* eligible accounts E, and no eligible account it leaves has a strictly
\* higher priority than one it claims.
C10_BatchOfHighestPriority ==
    [][\A p \in Procs :
        StealCommit(p) =>
            LET E == {a \in Accounts : IsEligible(acct[a], now)}
                C == {a \in Accounts : acct'[a] # acct[a]}
            IN  /\ C \subseteq E
                /\ Cardinality(C) = IF Cardinality(E) < 10 THEN Cardinality(E) ELSE 10
                /\ \A c \in C : \A u \in E \ C :
                      acct[u].priority <= acct[c].priority]_vars

\* A full batch of 10 was claimed and an eligible account of lower priority
\* than every claimed one is left for a later call.
C10_Witness ==
    \E p \in Procs :
        /\ Cardinality(Ret(p)) = 10
        /\ \E u \in Accounts :
            /\ IsEligible(acct[u], now)
            /\ \A c \in Ret(p) : acct[c].priority > acct[u].priority

\* The rows of the batch processJob is about to upsert whose natural key
\* (account id, provider transaction id) is not stored yet.
NewKeys(p) ==
    {<<ntx[p][i].AccountID, ntx[p][i].ProviderTransactionID>> : i \in 1..Len(ntx[p])}
    \ {<<s.AccountID, s.ProviderTransactionID>> : s \in txns}

\* C7: the upsert of a snapshot none of whose R natural keys is stored adds
\* exactly R rows, and the upsert of a snapshot whose natural keys are all
\* stored changes nothing.
C7_IdempotentIngestion ==
    [][\A p \in Procs :
        NormUpsert(p) =>
            LET keys == {<<ntx[p][i].AccountID, ntx[p][i].ProviderTransactionID>> :
                            i \in 1..Len(ntx[p])}
            IN  /\ NewKeys(p) = keys
                    => Cardinality(txns') = Cardinality(txns) + Cardinality(keys)
                /\ NewKeys(p) = {} => txns' = txns]_vars

\* C8: the upsert ignores a row exactly when its natural key (account id,
\* provider transaction id) is stored: after the upsert every natural key of
\* the batch is stored, also one whose provider transaction id another
\* account has stored.
C8_NaturalKeyDedup ==
    [][\A p \in Procs :
        NormUpsert(p) =>
            \A i \in 1..Len(ntx[p]) :
                \E s \in txns' :
                    /\ s.AccountID = ntx[p][i].AccountID
                    /\ s.ProviderTransactionID = ntx[p][i].ProviderTransactionID]_vars

\* C11: a stealWork call that commits claims every account that is SYNCING
\* with last_sync_attempt more than 1 hour before the call's now, unless its
\* batch of 10 is filled by accounts of at least that priority; and a step
\* that stamps a new last_sync_attempt on a SYNCING row finds the old stamp
\* more than 1 hour before the new one.
C11_ZombieRecovery ==
    [][/\ \A p \in Procs :
            StealCommit(p) =>
                \A a \in Accounts :
                    (acct[a].sync_status = "SYNCING"
                        /\ acct[a].last_sync_attempt < tx[p].t - 1)
                    => \/ /\ acct'[a].sync_status = "SYNCING"
                          /\ acct'[a].last_sync_attempt = tx[p].t
                          /\ \E r \in batch'[p] \cup {[id |-> cur'[p][1].id,
                                                         row |-> acct'[cur'[p][1].id]]} :
                                r.id = a
                       \/ Cardinality({c \in Accounts :
                                /\ acct'[c] # acct[c]
                                /\ acct[c].priority >= acct[a].priority}) = 10
       /\ \A a \in Accounts :
            (acct[a].sync_status = "SYNCING"
                /\ acct'[a].last_sync_attempt # acct[a].last_sync_attempt)
            => acct[a].last_sync_attempt < acct'[a].last_sync_attempt - 1]_vars

\* An account claimed at hour 0, whose snapshot of that hour is on disk, was
\* left SYNCING and is claimed again two hours later.
C11_Witness ==
    \E a \in Accounts :
        /\ <<a, 0>> \in DOMAIN files
        /\ acct[a].sync_status = "SYNCING"
        /\ acct[a].last_sync_attempt = 2
        /\ a \in Ret("p1")

\* C12: when a stealWork call commits, every row it returns is SYNCING with
\* last_sync_attempt equal to the call's now, the store holds the same row,
\* and the returned accounts are exactly those whose row the call changed.
C12_ReturnsClaimedRows ==
    [][\A p \in Procs :
        StealCommit(p) =>
            LET first == cur'[p][1].id
                returned == {r.id : r \in batch'[p]} \cup {first}
            IN  /\ \A r \in batch'[p] :
                    /\ r.row.sync_status = "SYNCING"
                    /\ r.row.last_sync_attempt = tx[p].t
                    /\ acct'[r.id] = r.row
                /\ acct'[first].sync_status = "SYNCING"
                /\ acct'[first].last_sync_attempt = tx[p].t
                /\ returned = {a \in Accounts : acct'[a] # acct[a]}
                /\ returned = tx[p].ids]_vars

\* A call returned two rows: one is being processed, the other waits in the
\* batch, SYNCING and stamped with the call's time.
C12_Witness ==
    \E p \in Procs : \E r \in batch[p] :
        /\ fpc[p] = "fetch"
        /\ r.id # cur[p][1].id
        /\ r.row.sync_status = "SYNCING"
        /\ r.row.last_sync_attempt = now
        /\ acct[r.id] = r.row

\* C13: when processAccount starts on a returned row its cursor is the row's
\* last_synced_cursor when that is not null and the time of that start minus
\* 90 days otherwise; the SyncJob it builds carries that cursor.
C13_CursorOfJob ==
    [][\A p \in Procs :
        /\ (cur'[p] # cur[p] /\ cur'[p] # <<>>) =>
              LET a == cur'[p][1].id
                  row == IF fpc[p] = "tx" THEN acct'[a]
                         ELSE (CHOOSE r \in batch[p] : r.id = a).row
              IN  cur'[p][1].cursor =
                      IF row.last_synced_cursor # <<>> THEN row.last_synced_cursor[1]
                      ELSE now - 2160
        /\ FetchStage(p) =>
              /\ job'[p][1].AccountID = cur[p][1].id
              /\ job'[p][1].Cursor = cur[p][1].cursor]_vars

\* A job was built for an account that has a cursor, and one for an account
\* that has none.
C13_Witness ==
    \E p \in Procs :
        /\ fpc[p] = "push"
        /\ acct[job[p][1].AccountID].last_synced_cursor = <<job[p][1].Cursor>>
        /\ \E i \in 1..Len(queue[p]) : queue[p][i].Cursor = -2160

\* C14: when processJob completes its last step, the finalize, the account of
\* the job is IDLE, its last_synced_cursor is the job's FetchedAt, its
\* last_updated_at is the time of the finalize and its priority is 10.
C14_FinalizedFields ==
    [][\A p \in Procs :
        NormFinalize(p) =>
            LET j == njob[p][1]
                row == acct'[j.AccountID]
            IN  /\ row.sync_status = "IDLE"
                /\ row.last_synced_cursor = <<j.FetchedAt>>
                /\ row.last_updated_at = now
                /\ row.priority = 10
                /\ row.last_sync_attempt = acct[j.AccountID].last_sync_attempt
                /\ \A a \in Accounts \ {j.AccountID} : acct'[a] = acct[a]]_vars

\* An account claimed and fetched at hour 0 had its job finalized at hour 1:
\* the Normalizer is done and the account is IDLE with priority 10.
C14_Witness ==
    \E a \in Accounts :
        /\ npc["p1"] = "idle"
        /\ acct[a].sync_status = "IDLE"
        /\ acct[a].last_updated_at = 1
        /\ acct[a].last_synced_cursor = <<0>>
        /\ acct[a].priority = 10
        /\ acct[a].last_sync_attempt = 0

\* C15: the channel of an instance grows only by the one send of the job
\* processAccount has just built, which is not in the channel or in processJob
\* already; it shrinks (the process staying up) only by the Normalizer of that
\* instance, idle, taking its head; processJob works on no job but the head it
\* took, and no step puts a job back.
C15_ExactlyOnceDelivery ==
    [][\A p \in Procs :
        /\ Len(queue'[p]) > Len(queue[p]) =>
              /\ fpc[p] = "push" /\ fpc'[p] = "mark"
              /\ queue'[p] = Append(queue[p], job[p][1])
              /\ job[p][1].AccountID = cur[p][1].id
              /\ \A i \in 1..Len(queue[p]) : queue[p][i] # job[p][1]
              /\ njob[p] # job[p]
        /\ (fpc[p] = "push" /\ fpc'[p] = "mark") =>
              queue'[p] = Append(queue[p], job[p][1])
        /\ Len(queue'[p]) < Len(queue[p]) =>
              \/ Crash(p)
              \/ /\ npc[p] = "idle"
                 /\ queue'[p] = Tail(queue[p])
                 /\ \/ njob'[p] = <<Head(queue[p])>>
                    \/ njob'[p] = <<>> /\ npc'[p] = "idle"
        /\ (njob'[p] # njob[p] /\ njob'[p] # <<>>) =>
              /\ njob[p] = <<>>
              /\ queue[p] # <<>>
              /\ njob'[p] = <<Head(queue[p])>>
              /\ queue'[p] = Tail(queue[p])
        /\ (Len(queue'[p]) = Len(queue[p])) => queue'[p] = queue[p]]_vars

\* The job the Fetcher has just sent is with processJob and no longer in the
\* channel.
C15_Witness ==
    \E p \in Procs :
        /\ fpc[p] = "mark"
        /\ njob[p] = job[p]
        /\ \A i \in 1..Len(queue[p]) : queue[p][i] # job[p][1]

\* C16: the channel never holds more than 100 jobs; and while the Fetcher
\* stands at its send with the channel full, every step (the process staying
\* up) leaves the Fetcher where it is, starts no stealWork, claims no account
\* and adds no job.
C16_Backpressure ==
    /\ [](\A p \in Procs : Len(queue[p]) <= 100)
    /\ [][\A p \in Procs :
            (fpc[p] = "push" /\ Len(queue[p]) = 100) =>
                \/ Crash(p)
                \/ /\ fpc'[p] = "push"
                   /\ tx'[p] = tx[p] /\ batch'[p] = batch[p]
                   /\ cur'[p] = cur[p] /\ job'[p] = job[p]
                   /\ Len(queue'[p]) <= Len(queue[p])
                   /\ \A a \in Accounts :
                        acct'[a].last_sync_attempt = acct[a].last_sync_attempt]_vars

\* The Fetcher has a job to send and the channel holds 100.
C16_Witness ==
    fpc["p1"] = "push" /\ Len(queue["p1"]) = 100

\* C17: when saveToLocalStorage fails, processAccount sends no job and writes
\* no row: the account stays SYNCING; and last_sync_attempt is written by
\* claims only, so the stamp it keeps is that of its claim.
C17_StageFailureLeavesSyncing ==
    [][/\ \A p \in Procs :
            StageFail(p) =>
                /\ acct' = acct
                /\ queue' = queue /\ job' = job /\ files' = files
                /\ acct'[cur[p][1].id].sync_status = "SYNCING"
       /\ \A a \in Accounts :
            acct'[a].last_sync_attempt # acct[a].last_sync_attempt =>
                \E p \in Procs :
                    /\ fpc[p] = "tx" /\ a \in tx[p].ids
                    /\ acct'[a].last_sync_attempt = tx[p].t]_vars

\* Two accounts were claimed this hour; processAccount has returned for the
\* first, which is SYNCING with no snapshot and no job, and has built the job
\* of the second.
C17_Witness ==
    \E a \in Accounts :
        /\ fpc["p1"] = "push"
        /\ cur["p1"][1].id # a
        /\ acct[a].sync_status = "SYNCING"
        /\ acct[a].last_sync_attempt = now
        /\ acct[cur["p1"][1].id].last_sync_attempt = now
        /\ batch["p1"] = {}
        /\ JobsOf("p1", a) = 0
        /\ \A t \in 0..MaxTime : <<a, t>> \notin DOMAIN files

\* C18: when processJob cannot read the snapshot or cannot parse it, it
\* returns with the transactions table and every account row as they were,
\* and the job is gone.
C18_ReadOrParseFailureWritesNothing ==
    [][\A p \in Procs :
        (NormReadFail(p) \/ NormParseFail(p)) =>
            /\ txns' = txns
            /\ acct' = acct
            /\ npc'[p] = "idle" /\ njob'[p] = <<>>
            /\ queue'[p] = Tail(queue[p])]_vars

\* Two accounts of one claim were fetched; the job of the first, whose
\* snapshot does not parse, has left the channel ahead of the job of the
\* second, and the first account is FETCHED with no transaction stored.
C18_Witness ==
    \E a, b \in Accounts :
        /\ a # b
        /\ acct[a].last_sync_attempt = acct[b].last_sync_attempt
        /\ acct[a].sync_status = "FETCHED"
        /\ JobsOf("p1", a) = 0
        /\ \E i \in 1..Len(queue["p1"]) : queue["p1"][i].AccountID = b
        /\ \E t \in 0..MaxTime : <<a, t>> \in DOMAIN files /\ ~files[<<a, t>>].ok
        /\ txns = {}

\* C19: processJob comes to its finalize only from an upsert that stored the
\* whole batch (or from a snapshot with no record); an upsert error leaves
\* every account row as it was and ends the job, which is not queued again;
\* a finalize error leaves every account row as it was and the rows of the
\* batch in the transactions table.
C19_FinalizeOnlyAfterUpsert ==
    [][\A p \in Procs :
        /\ (npc'[p] = "finalize" /\ npc[p] # "finalize") =>
              \/ /\ npc[p] = "upsert"
                 /\ \A i \in 1..Len(ntx[p]) :
                        \E s \in txns' :
                            s.ProviderTransactionID = ntx[p][i].ProviderTransactionID
              \/ npc[p] = "idle" /\ ntx'[p] = <<>>
        /\ (\E a \in Accounts :
                /\ acct'[a].last_synced_cursor # acct[a].last_synced_cursor
                /\ njob[p] # <<>> /\ njob[p][1].AccountID = a)
              => npc[p] = "finalize"
        /\ NormUpsertFail(p) =>
              /\ acct' = acct
              /\ npc'[p] = "idle" /\ njob'[p] = <<>>
              /\ queue' = queue
        /\ NormFinalizeFail(p) =>
              /\ acct' = acct
              /\ txns' = txns
              /\ \A i \in 1..Len(ntx[p]) :
                    \E s \in txns :
                        s.ProviderTransactionID = ntx[p][i].ProviderTransactionID
              /\ npc'[p] = "idle" /\ njob'[p] = <<>>
              /\ queue' = queue]_vars

\* Two accounts of one claim were fetched; the job of the first has left the
\* channel ahead of the job of the second and its rows are stored, while the
\* first account is FETCHED and was never finalized.
C19_Witness ==
    \E a, b \in Accounts :
        /\ a # b
        /\ acct[a].last_sync_attempt = acct[b].last_sync_attempt
        /\ acct[a].sync_status = "FETCHED"
        /\ acct[a].last_updated_at < 0
        /\ JobsOf("p1", a) = 0
        /\ \E i \in 1..Len(queue["p1"]) : queue["p1"][i].AccountID = b
        /\ \E s \in txns : s.AccountID = a

C21_TransactionsImmutable ==
    /\ [](\A r, s \in txns :
            (r.AccountID = s.AccountID
                /\ r.ProviderTransactionID = s.ProviderTransactionID) => r = s)
    /\ [][/\ txns \subseteq txns'
          /\ txns' # txns =>
                \E p \in Procs :
                    /\ npc[p] = "upsert"
                    /\ txns' \ txns \subseteq {ntx[p][i] : i \in 1..Len(ntx[p])}]_vars

\* The snapshot of an account was normalized at hour 0 and a second snapshot
\* of the same account, fetched at hour 2, has gone through the upsert: the
\* rows of the account are those of the first batch of uuids.
C21_Witness ==
    \E a \in Accounts :
        /\ npc["p1"] = "finalize"
        /\ njob["p1"][1].AccountID = a
        /\ njob["p1"][1].FetchedAt = 2
        /\ ntx["p1"] # <<>>
        /\ \E s \in txns : s.AccountID = a /\ s.SystemInsertedAt = 0
        /\ \A i \in 1..Len(ntx["p1"]) : ntx["p1"][i] \notin txns

\* C22: the checkpoint write of processAccount, after the job is sent, leaves
\* the account FETCHED with priority 10, and no step of the pipeline changes
\* a priority to anything but 10: the account never again has a priority
\* above the default.
C22_PriorityReset ==
    [][/\ \A p \in Procs :
            MarkFetched(p) =>
                /\ acct'[cur[p][1].id].sync_status = "FETCHED"
                /\ acct'[cur[p][1].id].priority = 10
                /\ \A a \in Accounts \ {cur[p][1].id} : acct'[a] = acct[a]
       /\ \A a \in Accounts :
            acct'[a].priority # acct[a].priority => acct'[a].priority = 10]_vars

\* One of the two accounts seeded with priority 100 was claimed this hour and
\* is FETCHED with priority 10, its job in the channel.
C22_Witness ==
    \E a \in {QueueCap, QueueCap + 1} :
        /\ BacklogTable[a].priority = 100
        /\ acct[a].sync_status = "FETCHED"
        /\ acct[a].priority = 10
        /\ acct[a].last_sync_attempt = 0
        /\ \E i \in 1..Len(queue["p1"]) : queue["p1"][i].AccountID = a

\* C23: GetAccountTransactions returns without an error only for an account
\* that exists and whose user_id is the requesting user's, and then returns
\* the stored transactions of that account; for an account that does not
\* exist or is another user's it returns no transaction, and, the database
\* answering, ErrNotFound.
C23_TransactionsOfOwnAccountOnly ==
    reply.op = "GetAccountTransactions" =>
        LET owned == reply.account \in Accounts /\ UserOf(reply.account) = reply.user
        IN  /\ reply.err = "nil" =>
                /\ owned
                /\ reply.rows = {t \in txns : t.AccountID = reply.account}
            /\ ~owned =>
                /\ reply.rows = {}
                /\ ~reply.dbError => reply.err = "no accounts found"
            /\ (owned /\ ~reply.dbError) => reply.err = "nil"

\* A user asked for the account of another user, which has transactions, and
\* got ErrNotFound and no rows.
C23_Witness ==
    /\ reply.op = "GetAccountTransactions"
    /\ reply.account \in Accounts
    /\ UserOf(reply.account) # reply.user
    /\ \E t \in txns : t.AccountID = reply.account
    /\ reply.err = "no accounts found"
    /\ reply.rows = {}

\* C24: GetUserAccounts returns ErrNotFound when the user has no account (the
\* database answering), and an error other than ErrNotFound only when the
\* database fails.
C24_NotFoundWithoutAccounts ==
    reply.op = "GetUserAccounts" =>
        /\ (~reply.dbError /\ \A a \in Accounts : UserOf(a) # reply.user)
              => reply.err = "no accounts found"
        /\ reply.err \notin {"nil", "no accounts found"} => reply.dbError

\* C25: a job sent goes behind every job waiting in the channel, the waiting
\* jobs keep their order, and the Normalizer takes the job at the front, and
\* only when processJob has returned for the job before: jobs are processed
\* one at a time in the order they were sent.
C25_FifoProcessing ==
    [][\A p \in Procs :
        /\ Len(queue'[p]) > Len(queue[p]) =>
              /\ Len(queue'[p]) = Len(queue[p]) + 1
              /\ \A i \in 1..Len(queue[p]) : queue'[p][i] = queue[p][i]
              /\ queue'[p][Len(queue'[p])] = job[p][1]
        /\ (Len(queue'[p]) < Len(queue[p]) /\ ~Crash(p)) =>
              /\ npc[p] = "idle" /\ njob[p] = <<>>
              /\ \A i \in 1..Len(queue'[p]) : queue'[p][i] = queue[p][i + 1]
              /\ Len(queue'[p]) = Len(queue[p]) - 1
              /\ njob'[p] # <<>> => njob'[p][1] = queue[p][1]
        /\ (npc[p] # "idle" /\ npc'[p] # "idle") => njob'[p] = njob[p]]_vars

\* The two oldest jobs of the backlog have been taken, the third is at the
\* front, and the job sent since is the last of the channel.
C25_Witness ==
    /\ Len(queue["p1"]) = QueueCap - 2
    /\ queue["p1"][1].AccountID = 3
    /\ \A i \in 1..(QueueCap - 3) : queue["p1"][i].AccountID = i + 2
    /\ queue["p1"][QueueCap - 2].AccountID >= QueueCap

\* C26: with one server instance, a step that changes an account's
\* last_synced_cursor is a finalize, which sets it to the FetchedAt of its
\* job, and that is not before the cursor it replaces.
C26_CursorMonotone ==
    [][\A a \in Accounts :
        acct'[a].last_synced_cursor # acct[a].last_synced_cursor =>
            /\ npc["p1"] = "finalize"
            /\ njob["p1"][1].AccountID = a
            /\ acct'[a].last_synced_cursor = <<njob["p1"][1].FetchedAt>>
            /\ acct[a].last_synced_cursor # <<>> =>
                  acct'[a].last_synced_cursor[1] >= acct[a].last_synced_cursor[1]]_vars

\* The job of an account whose stored cursor was 8 hours old has been
\* finalized (the Fetcher still holds the job it sent): the cursor is now the
\* job's FetchedAt.
C26_Witness ==
    /\ fpc["p1"] = "mark"
    /\ job["p1"][1].Cursor = -8
    /\ JobsOf("p1", job["p1"][1].AccountID) = 0
    /\ acct[job["p1"][1].AccountID].last_synced_cursor = <<job["p1"][1].FetchedAt>>

\* C27: when the snapshot of a job parses to no record, processJob goes from
\* the parse straight to the finalize, which leaves the account IDLE with
\* last_synced_cursor at the job's FetchedAt and priority 10, and no step of
\* that job changes the transactions table.
C27_EmptySnapshotFinalizes ==
    [][\A p \in Procs :
        /\ (NormParse(p) /\ ntx'[p] = <<>>) =>
              /\ npc'[p] = "finalize"
              /\ txns' = txns
        /\ (npc[p] # "idle" /\ ntx[p] = <<>>) =>
              /\ npc[p] = "finalize"
              /\ txns' = txns
        /\ (NormFinalize(p) /\ ntx[p] = <<>>) =>
              LET j == njob[p][1] IN
                  /\ acct'[j.AccountID].sync_status = "IDLE"
                  /\ acct'[j.AccountID].last_synced_cursor = <<j.FetchedAt>>
                  /\ acct'[j.AccountID].priority = 10]_vars

\* The oldest job of the backlog, whose snapshot is an empty list, has been
\* finalized: its account is IDLE with the cursor at the job's FetchedAt and
\* no transaction is stored.
C27_Witness ==
    /\ acct[1].sync_status = "IDLE"
    /\ acct[1].last_synced_cursor = <<BacklogJob(1).FetchedAt>>
    /\ acct[1].priority = 10
    /\ files[BacklogJob(1).S3Path].recs = <<>>
    /\ txns = {}
    /\ npc["p1"] = "idle"

\* C28: a stealWork call that commits claims every account that is IDLE with
\* last_updated_at at the zero time, whatever the hour, unless its batch of
\* 10 is filled by accounts of at least that priority.
C28_NeverSyncedIsStale ==
    [][\A p \in Procs :
        StealCommit(p) =>
            \A a \in Accounts :
                (acct[a].sync_status = "IDLE" /\ acct[a].last_updated_at = ZeroTime)
                => \/ /\ acct'[a].sync_status = "SYNCING"
                      /\ acct'[a].last_sync_attempt = tx[p].t
                      /\ a \in tx[p].ids
                   \/ Cardinality({c \in tx[p].ids :
                            acct[c].priority >= acct[a].priority}) = 10]_vars

\* At hour 0 the first call has claimed an account of default priority that
\* was never normalized and never requested.
C28_Witness ==
    \E a \in Accounts :
        /\ now = 0
        /\ a \in Ret("p1")
        /\ acct[a].sync_status = "SYNCING"
        /\ acct[a].last_sync_attempt = 0
        /\ acct[a].priority = 10
        /\ acct[a].last_updated_at = ZeroTime
        /\ acct[a].last_synced_cursor = <<>>

\* The first and the last job of the backlog and the jobs of the two
\* requested accounts: the channel being first in, first out, every job is
\* taken no later than one of these.
WatchedJobs == {1, QueueCap - 1, QueueCap, QueueCap + 1}

\* C29: with the Normalizer scheduled and every store and file operation
\* returning, a job that is in the channel or in processJob is eventually in
\* neither, processJob eventually returns, and a Fetcher standing at its send
\* eventually gets past it.
C29_NoQueueDeadlock ==
    /\ \A a \in WatchedJobs : (JobsOf("p1", a) > 0) ~> (JobsOf("p1", a) = 0)
    /\ (npc["p1"] # "idle") ~> (npc["p1"] = "idle")
    /\ (fpc["p1"] = "push") ~> (fpc["p1"] # "push")

\* The channel is full with the job of the second requested account at its
\* end: the second send has completed after the Normalizer took the first
\* job of the backlog, whose account is finalized.
C29_Witness ==
    /\ Len(queue["p1"]) = QueueCap
    /\ queue["p1"][QueueCap].AccountID >= QueueCap
    /\ queue["p1"][QueueCap - 1].AccountID >= QueueCap
    /\ fpc["p1"] = "wait"
    /\ acct[1].sync_status = "IDLE"

\* C30: a stealWork call that commits writes sync_status and
\* last_sync_attempt of the accounts it selected and nothing else: their
\* priority, last_synced_cursor, last_updated_at, balance and currency and
\* every other row are as before; a call that selects, or that ends with an
\* error, changes no row.
C30_StealWorkFrame ==
    [][\A p \in Procs :
        /\ StealCommit(p) =>
              \A a \in Accounts :
                  IF a \in tx[p].ids
                  THEN /\ acct'[a].priority = acct[a].priority
                       /\ acct'[a].last_synced_cursor = acct[a].last_synced_cursor
                       /\ acct'[a].last_updated_at = acct[a].last_updated_at
                       /\ acct'[a].balance = acct[a].balance
                       /\ acct'[a].currency = acct[a].currency
                       /\ DOMAIN acct'[a] = DOMAIN acct[a]
                  ELSE acct'[a] = acct[a]
        /\ (StealSelect(p) \/ StealAbort(p)) => acct' = acct]_vars

\* A call has claimed the seeded account, which keeps its priority of 100,
\* and has left an account synced an hour ago as it was.
C30_Witness ==
    \E a, b \in Accounts :
        /\ a \in Ret("p1")
        /\ acct[a].sync_status = "SYNCING"
        /\ acct[a].last_sync_attempt = now
        /\ acct[a].priority = 100
        /\ acct[b] = FreshRow

====
